---- MODULE Spec2Model ----
(***************************************************************************)
(* Model of jxsysint.c (HAL for MIPS Jazz/Duo): the system interrupt gate  *)
(* HalEnableSystemInterrupt / HalDisableSystemInterrupt, the vector        *)
(* resolver HalGetInterruptVector and HalRequestIpi.                       *)
(*                                                                         *)
(* Every processor runs a stack of frames: a "call" frame is one           *)
(* invocation of a gate routine with its parameters, its local OldIrql and *)
(* its program counter; an "isr" frame is an interrupt service routine     *)
(* that preempted what is below it.                                        *)
(***************************************************************************)
EXTENDS Integers, Sequences, FiniteSets, TLC

VARIABLES
    HalpBuiltinInterruptEnable, \* USHORT: in-memory mirror of the enable mask
    EnableReg,                  \* ((PINTERRUPT_REGISTERS)INTERRUPT_VIRTUAL_BASE)->Enable
    HalpSystemInterruptLock,    \* 0 = free, p = taken by processor p
    irql,                       \* irql[p]: current IRQL of processor p
    stk,                        \* stk[p]: frames of processor p, innermost last
    eisaCtl,                    \* EISA controller: vector -> "Disabled" or its mode
    lastBusCall,                \* last call received by the EISA collaborator
    seqMask,                    \* history: set of mask bits after applying the
                                \* calls in lock-acquisition order
    acq,                        \* history: the last two calls that took the lock
    HalpEisaBusAffinity,        \* KAFFINITY: processors wired to the EISA bus
    res,                        \* the last call of HalGetInterruptVector:
                                \* its arguments, *Irql, *Affinity and its value
    ret,                        \* history: the last return of a gate routine
    lastOp,                     \* history: for every built-in vector, the last
                                \* call on it in lock-acquisition order
    DUO,                        \* the build defines _DUO_
    IpInterruptRequest,         \* ((PDMA_REGISTERS)DMA_VIRTUAL_BASE)->IpInterruptRequest.Long
    ipiPending,                 \* processors with an interprocessor interrupt posted
    ipi                         \* ipi[p]: the call of HalRequestIpi of processor p

vars == <<HalpBuiltinInterruptEnable, EnableReg, HalpSystemInterruptLock,
          irql, stk, eisaCtl, lastBusCall, seqMask, acq, HalpEisaBusAffinity, res,
          ret, lastOp, DUO, IpInterruptRequest, ipiPending, ipi>>

\* what the gate neither reads nor writes
resolverVars == <<HalpEisaBusAffinity, res>>

\* the state of the gate and of its callers
gateVars == <<HalpBuiltinInterruptEnable, EnableReg, HalpSystemInterruptLock,
              irql, stk, eisaCtl, lastBusCall, seqMask, acq, ret, lastOp>>

\* the state of HalRequestIpi
ipiVars == <<DUO, IpInterruptRequest, ipiPending, ipi>>

----------------------------------------------------------------------------
(* Platform constants (halp.h, jazzdef.h, ntmips.h).                       *)

DEVICE_VECTORS == 16
MAXIMUM_BUILTIN_VECTOR == 10 + DEVICE_VECTORS
EISA_VECTORS == 32
MAXIMUM_EISA_VECTOR == 15 + EISA_VECTORS
PASSIVE_LEVEL == 0
DEVICE_LEVEL == 4
EISA_DEVICE_LEVEL == 5
HIGH_LEVEL == 8

\* KINTERRUPT_MODE
InterruptModes == {"LevelSensitive", "Latched"}

----------------------------------------------------------------------------
(* Bounds of the model.                                                    *)

NumProcs == 2          \* processors
MaxIsrCalls == 1       \* gate calls made by one interrupt service routine

Procs == 1 .. NumProcs

----------------------------------------------------------------------------
(* C integer operators on two's complement values (\div is floor, % is     *)
(* non-negative, so -1 is "all ones").                                     *)

RECURSIVE BitAnd(_, _)
BitAnd(a, b) ==
    IF a = 0 \/ b = 0 THEN 0
    ELSE IF a = -1 THEN b
    ELSE IF b = -1 THEN a
    ELSE (a % 2) * (b % 2) + 2 * BitAnd(a \div 2, b \div 2)

RECURSIVE BitOr(_, _)
BitOr(a, b) ==
    IF a = 0 THEN b
    ELSE IF b = 0 THEN a
    ELSE IF a = -1 \/ b = -1 THEN -1
    ELSE (IF a % 2 = 1 \/ b % 2 = 1 THEN 1 ELSE 0) + 2 * BitOr(a \div 2, b \div 2)

BitNot(a) == -a - 1

ShiftLeft(a, n) == a * 2^n

\* conversion of an int to USHORT on assignment
ToUshort(x) == x % 65536

\* bit n of a non-negative value
Bit(x, n) == (x \div 2^n) % 2

\* the set of bit numbers set in a 16-bit value
BitsOf(x) == {n \in 0 .. 15 : Bit(x, n) = 1}

----------------------------------------------------------------------------
(* The tests and the mask arithmetic of the gate.                          *)

\* mutant: the upper bound of the built-in range is off by one
IsBuiltinVector_UpperOff(Vector) ==
    (Vector >= (DEVICE_VECTORS + 1)) /\ (Vector <= MAXIMUM_BUILTIN_VECTOR + 1)

\* (Vector >= (DEVICE_VECTORS + 1)) && (Vector <= MAXIMUM_BUILTIN_VECTOR)
IsBuiltinVector(Vector) ==
    (Vector >= (DEVICE_VECTORS + 1)) /\ (Vector <= MAXIMUM_BUILTIN_VECTOR)

\* mutant: the test of Irql is missing
IsEisaVector_NoIrql(Vector, Irql) ==
    /\ Vector >= EISA_VECTORS
    /\ Vector < EISA_VECTORS + MAXIMUM_EISA_VECTOR

\* Vector >= EISA_VECTORS && Vector < EISA_VECTORS + MAXIMUM_EISA_VECTOR &&
\* Irql == EISA_DEVICE_LEVEL
IsEisaVector(Vector, Irql) ==
    /\ Vector >= EISA_VECTORS
    /\ Vector < EISA_VECTORS + MAXIMUM_EISA_VECTOR
    /\ Irql = EISA_DEVICE_LEVEL

\* mutant: the bit is added, not or-ed
EnableMask_Add(mask, Vector) ==
    ToUshort(mask + ShiftLeft(1, Vector - DEVICE_VECTORS - 1))

\* mutant: the shift count is Vector - DEVICE_VECTORS
EnableMask_OffByOne(mask, Vector) ==
    ToUshort(BitOr(mask, ShiftLeft(1, Vector - DEVICE_VECTORS)))

\* HalpBuiltinInterruptEnable |= (1 << (Vector - DEVICE_VECTORS - 1))
EnableMask(mask, Vector) ==
    ToUshort(BitOr(mask, ShiftLeft(1, Vector - DEVICE_VECTORS - 1)))

\* mutant: the bit is toggled
DisableMask_Toggle(mask, Vector) ==
    ToUshort(BitOr(BitAnd(mask, BitNot(ShiftLeft(1, Vector - DEVICE_VECTORS - 1))),
                   BitAnd(BitNot(mask), ShiftLeft(1, Vector - DEVICE_VECTORS - 1))))

\* mutant: the complement of the bit is missing
DisableMask_NoNot(mask, Vector) ==
    ToUshort(BitAnd(mask, ShiftLeft(1, Vector - DEVICE_VECTORS - 1)))

\* HalpBuiltinInterruptEnable &= ~(1 << (Vector - DEVICE_VECTORS - 1))
DisableMask(mask, Vector) ==
    ToUshort(BitAnd(mask, BitNot(ShiftLeft(1, Vector - DEVICE_VECTORS - 1))))

----------------------------------------------------------------------------
(* ULONG values are pairs <<high, low>> of 16-bit halves, so that all 32   *)
(* bits are kept.                                                          *)

ULong(hi, lo) == <<hi, lo>>

\* a small non-negative number as a ULONG
ToULong(x) == <<x \div 65536, x % 65536>>

\* unsigned 32-bit addition: the carry out of bit 31 is lost
AddULong(a, b) ==
    <<(a[1] + b[1] + ((a[2] + b[2]) \div 65536)) % 65536, (a[2] + b[2]) % 65536>>

\* (KIRQL)x: KIRQL is an unsigned char, the conversion keeps the low 8 bits
ToKirql(x) == x[2] % 256

----------------------------------------------------------------------------
(* HalGetInterruptVector(InterfaceType, BusNumber, BusInterruptLevel,      *)
(*                       BusInterruptVector, Irql, Affinity)               *)
(* The value is [Vector, Irql, Affinity]: the returned system vector and   *)
(* what is stored through the two OUT pointers.                            *)

\* mutant: EISA_VECTORS is not added to the bus interrupt level
HalGetInterruptVector_NoBase(InterfaceType, BusNumber, BusInterruptLevel, BusInterruptVector) ==
    IF InterfaceType = "Internal"
    THEN [Affinity |-> 1,
          Irql |-> ToKirql(BusInterruptLevel),
          Vector |-> BusInterruptVector]
    ELSE IF InterfaceType # "Isa" /\ InterfaceType # "Eisa"
    THEN [Affinity |-> 0, Irql |-> 0, Vector |-> ToULong(0)]
    ELSE LET Level == IF BusInterruptLevel = ToULong(2) THEN ToULong(9)
                      ELSE BusInterruptLevel
         IN  [Affinity |-> HalpEisaBusAffinity,
              Irql |-> EISA_DEVICE_LEVEL,
              Vector |-> Level]

\* mutant: bus interrupt level 2 is not mapped to level 9
HalGetInterruptVector_NoRemap(InterfaceType, BusNumber, BusInterruptLevel, BusInterruptVector) ==
    IF InterfaceType = "Internal"
    THEN [Affinity |-> 1,
          Irql |-> ToKirql(BusInterruptLevel),
          Vector |-> BusInterruptVector]
    ELSE IF InterfaceType # "Isa" /\ InterfaceType # "Eisa"
    THEN [Affinity |-> 0, Irql |-> 0, Vector |-> ToULong(0)]
    ELSE [Affinity |-> HalpEisaBusAffinity,
          Irql |-> EISA_DEVICE_LEVEL,
          Vector |-> AddULong(BusInterruptLevel, ToULong(EISA_VECTORS))]

\* mutant: a bus that is not on this system gets the bus vector back
HalGetInterruptVector_NotPresentVector(InterfaceType, BusNumber, BusInterruptLevel, BusInterruptVector) ==
    IF InterfaceType = "Internal"
    THEN [Affinity |-> 1,
          Irql |-> ToKirql(BusInterruptLevel),
          Vector |-> BusInterruptVector]
    ELSE IF InterfaceType # "Isa" /\ InterfaceType # "Eisa"
    THEN [Affinity |-> 0, Irql |-> 0, Vector |-> BusInterruptVector]
    ELSE LET Level == IF BusInterruptLevel = ToULong(2) THEN ToULong(9)
                      ELSE BusInterruptLevel
         IN  [Affinity |-> HalpEisaBusAffinity,
              Irql |-> EISA_DEVICE_LEVEL,
              Vector |-> AddULong(Level, ToULong(EISA_VECTORS))]

HalGetInterruptVector(InterfaceType, BusNumber, BusInterruptLevel, BusInterruptVector) ==
    IF InterfaceType = "Internal"
    THEN [Affinity |-> 1,
          Irql |-> ToKirql(BusInterruptLevel),
          Vector |-> BusInterruptVector]
    ELSE IF InterfaceType # "Isa" /\ InterfaceType # "Eisa"
    THEN [Affinity |-> 0, Irql |-> 0, Vector |-> ToULong(0)]
    ELSE LET Level == IF BusInterruptLevel = ToULong(2) THEN ToULong(9)
                      ELSE BusInterruptLevel
         IN  [Affinity |-> HalpEisaBusAffinity,
              Irql |-> EISA_DEVICE_LEVEL,
              Vector |-> AddULong(Level, ToULong(EISA_VECTORS))]

\* a caller resolves a bus interrupt; the call and its results are kept in res
Resolve(InterfaceType, BusNumber, BusInterruptLevel, BusInterruptVector) ==
    /\ res' = [InterfaceType |-> InterfaceType, BusNumber |-> BusNumber,
               BusInterruptLevel |-> BusInterruptLevel,
               BusInterruptVector |-> BusInterruptVector] @@
              HalGetInterruptVector(InterfaceType, BusNumber, BusInterruptLevel,
                                    BusInterruptVector)
    /\ UNCHANGED <<HalpBuiltinInterruptEnable, EnableReg, HalpSystemInterruptLock,
                   irql, stk, eisaCtl, lastBusCall, seqMask, acq,
                   HalpEisaBusAffinity, ret, lastOp>>
    /\ UNCHANGED ipiVars

----------------------------------------------------------------------------
(* Frames.                                                                 *)

Depth(p) == Len(stk[p])
Top(p) == stk[p][Len(stk[p])]

IsCall(f) == f.kind = "call"

\* processor p is inside routine fn at program counter pc
At(p, fn, pc) ==
    /\ Depth(p) > 0
    /\ IsCall(Top(p))
    /\ Top(p).fn = fn
    /\ Top(p).pc = pc

\* the running context of p is not inside a gate routine
Outside(p) == IF Depth(p) = 0 THEN TRUE ELSE ~IsCall(Top(p))

\* the running context of p may call a gate routine: a thread that is not
\* inside HalRequestIpi, or an interrupt
\* service routine that has not made its MaxIsrCalls calls yet
CanCall(p) == IF Depth(p) = 0 THEN ipi[p].pc = "idle"
              ELSE ~IsCall(Top(p)) /\ Top(p).done < MaxIsrCalls

Push(p, f) == [stk EXCEPT ![p] = Append(@, f)]
Pop(p) == [stk EXCEPT ![p] = SubSeq(@, 1, Len(@) - 1)]

\* the call frame on top returns to what is below it; an interrupt service
\* routine counts the calls it has completed (history)
ReturnTo(s) ==
    IF Len(s) > 0 /\ s[Len(s)].kind = "isr"
    THEN [s EXCEPT ![Len(s)] = [@ EXCEPT !.done = @ + 1]]
    ELSE s
Return(p) == [stk EXCEPT ![p] = ReturnTo(SubSeq(@, 1, Len(@) - 1))]
SetTop(p, f) == [stk EXCEPT ![p] = [@ EXCEPT ![Len(@)] = f]]
Goto(p, pc) == SetTop(p, [Top(p) EXCEPT !.pc = pc])

NewCall(p, fn, Vector, Irql, InterruptMode) ==
    [kind |-> "call", fn |-> fn, Vector |-> Vector, Irql |-> Irql,
     InterruptMode |-> InterruptMode,
     OldIrql |-> irql[p],       \* KeRaiseIrql stores the previous level
     pc |-> "acquire",
     tmp |-> 0,                 \* value loaded by the read-modify-write
     entryIrql |-> irql[p],     \* history: level of the caller at the call
     nWrites |-> 0,             \* history: writes of the Enable register
     nBus |-> 0]                \* history: calls of the EISA collaborator

----------------------------------------------------------------------------
(* Collaborators.                                                          *)

\* KeRaiseIrql(NewIrql, &OldIrql): the level of p becomes NewIrql
KeRaiseIrql(p, NewIrql) == irql' = [irql EXCEPT ![p] = NewIrql]

\* KeLowerIrql(NewIrql)
KeLowerIrql(p, NewIrql) == irql' = [irql EXCEPT ![p] = NewIrql]

\* KiAcquireSpinLock: spins until the lock is free, then takes it
KiAcquireSpinLock(p) ==
    /\ HalpSystemInterruptLock = 0
    /\ HalpSystemInterruptLock' = p

\* KiReleaseSpinLock: stores "free", whoever holds the lock
KiReleaseSpinLock(p) == HalpSystemInterruptLock' = 0

\* WRITE_REGISTER_USHORT(&...->Enable, Value)
WriteEnableRegister(Value) == EnableReg' = Value

\* HalpEnableEisaInterrupt(Vector, InterruptMode)
HalpEnableEisaInterrupt(Vector, InterruptMode) ==
    /\ eisaCtl' = [eisaCtl EXCEPT ![Vector] = InterruptMode]
    /\ lastBusCall' = [fn |-> "HalpEnableEisaInterrupt", Vector |-> Vector,
                       InterruptMode |-> InterruptMode]

\* HalpDisableEisaInterrupt(Vector)
HalpDisableEisaInterrupt(Vector) ==
    /\ eisaCtl' = [eisaCtl EXCEPT ![Vector] = "Disabled"]
    /\ lastBusCall' = [fn |-> "HalpDisableEisaInterrupt", Vector |-> Vector,
                       InterruptMode |-> "None"]

\* history: the call that takes the lock now, with the mask it finds, is the
\* last one; the last one becomes the one before it
AcqRecord(h, fn, Vector) ==
    IF ~h.on THEN h
    ELSE [h EXCEPT !.prev = h.last,
                   !.last = [fn |-> fn, Vector |-> Vector,
                             mask |-> HalpBuiltinInterruptEnable]]

\* history: the call that takes the lock now is the last call on its vector
LastOpRecord(h, fn, Vector) ==
    IF ~h.on \/ Vector \notin DOMAIN h.op THEN h
    ELSE [h EXCEPT !.op = [@ EXCEPT ![Vector] = fn]]

\* history: routine fn returns value (<<>> for a VOID routine) after effects
\* register writes and bus calls
RetRecord(r, fn, value, effects) ==
    IF ~r.on THEN r
    ELSE [r EXCEPT !.fn = fn, !.value = value, !.effects = effects]

\* history: the mask bits after one more call, taken in acquisition order
SeqApply(bits, fn, Vector) ==
    IF ~IsBuiltinVector(Vector) THEN bits
    ELSE IF fn = "Enable" THEN bits \cup {Vector - DEVICE_VECTORS - 1}
    ELSE bits \ {Vector - DEVICE_VECTORS - 1}

----------------------------------------------------------------------------
(* HalDisableSystemInterrupt(Vector, Irql)                                 *)

\* mutant: the call of KeRaiseIrql is missing
HalDisableSystemInterrupt_NoRaise(p, Vector, Irql) ==
    /\ CanCall(p)
    /\ stk' = Push(p, NewCall(p, "Disable", Vector, Irql, "None"))
    /\ UNCHANGED <<HalpBuiltinInterruptEnable, EnableReg, HalpSystemInterruptLock,
                   irql, eisaCtl, lastBusCall, seqMask, acq>>
    /\ UNCHANGED <<resolverVars, ipiVars, ret, lastOp>>

\* entry and KeRaiseIrql(HIGH_LEVEL, &OldIrql)
HalDisableSystemInterrupt(p, Vector, Irql) ==
    /\ CanCall(p)
    /\ stk' = Push(p, NewCall(p, "Disable", Vector, Irql, "None"))
    /\ KeRaiseIrql(p, HIGH_LEVEL)
    /\ UNCHANGED <<HalpBuiltinInterruptEnable, EnableReg, HalpSystemInterruptLock,
                   eisaCtl, lastBusCall, seqMask, acq>>
    /\ UNCHANGED <<resolverVars, ipiVars, ret, lastOp>>

\* mutant: the lock is taken without waiting for it to be free
DisAcquire_NoSpin(p) ==
    /\ At(p, "Disable", "acquire")
    /\ HalpSystemInterruptLock' = p
    /\ stk' = Goto(p, "test")
    /\ seqMask' = SeqApply(seqMask, "Disable", Top(p).Vector)
    /\ acq' = AcqRecord(acq, "Disable", Top(p).Vector)
    /\ UNCHANGED <<HalpBuiltinInterruptEnable, EnableReg, irql, eisaCtl, lastBusCall>>
    /\ lastOp' = LastOpRecord(lastOp, "Disable", Top(p).Vector)
    /\ UNCHANGED <<resolverVars, ipiVars, ret>>

\* KiAcquireSpinLock(&HalpSystemInterruptLock)
DisAcquire(p) ==
    /\ At(p, "Disable", "acquire")
    /\ KiAcquireSpinLock(p)
    /\ stk' = Goto(p, "test")
    /\ seqMask' = SeqApply(seqMask, "Disable", Top(p).Vector)
    /\ acq' = AcqRecord(acq, "Disable", Top(p).Vector)
    /\ UNCHANGED <<HalpBuiltinInterruptEnable, EnableReg, irql, eisaCtl, lastBusCall>>
    /\ lastOp' = LastOpRecord(lastOp, "Disable", Top(p).Vector)
    /\ UNCHANGED <<resolverVars, ipiVars, ret>>

\* the built-in range test and the load of HalpBuiltinInterruptEnable
DisTest(p) ==
    /\ At(p, "Disable", "test")
    /\ IF IsBuiltinVector(Top(p).Vector)
       THEN stk' = SetTop(p, [Top(p) EXCEPT !.pc = "store",
                                           !.tmp = HalpBuiltinInterruptEnable])
       ELSE stk' = Goto(p, "eisa")
    /\ UNCHANGED <<HalpBuiltinInterruptEnable, EnableReg, HalpSystemInterruptLock,
                   irql, eisaCtl, lastBusCall, seqMask, acq>>
    /\ UNCHANGED <<resolverVars, ipiVars, ret, lastOp>>

\* HalpBuiltinInterruptEnable &= ~(1 << (Vector - DEVICE_VECTORS - 1)): the store
DisStore(p) ==
    /\ At(p, "Disable", "store")
    /\ HalpBuiltinInterruptEnable' = DisableMask(Top(p).tmp, Top(p).Vector)
    /\ stk' = SetTop(p, [Top(p) EXCEPT !.pc = "write", !.tmp = 0])
    /\ UNCHANGED <<EnableReg, HalpSystemInterruptLock, irql, eisaCtl, lastBusCall,
                   seqMask, acq>>
    /\ UNCHANGED <<resolverVars, ipiVars, ret, lastOp>>

\* WRITE_REGISTER_USHORT(&...->Enable, HalpBuiltinInterruptEnable)
DisWrite(p) ==
    /\ At(p, "Disable", "write")
    /\ WriteEnableRegister(HalpBuiltinInterruptEnable)
    /\ stk' = SetTop(p, [Top(p) EXCEPT !.pc = "eisa", !.nWrites = @ + 1])
    /\ UNCHANGED <<HalpBuiltinInterruptEnable, HalpSystemInterruptLock, irql,
                   eisaCtl, lastBusCall, seqMask, acq>>
    /\ UNCHANGED <<resolverVars, ipiVars, ret, lastOp>>

\* the EISA range test and HalpDisableEisaInterrupt(Vector)
DisEisa(p) ==
    /\ At(p, "Disable", "eisa")
    /\ IF IsEisaVector(Top(p).Vector, Top(p).Irql)
       THEN /\ HalpDisableEisaInterrupt(Top(p).Vector)
            /\ stk' = SetTop(p, [Top(p) EXCEPT !.pc = "release", !.nBus = @ + 1])
       ELSE /\ stk' = Goto(p, "release")
            /\ UNCHANGED <<eisaCtl, lastBusCall>>
    /\ UNCHANGED <<HalpBuiltinInterruptEnable, EnableReg, HalpSystemInterruptLock,
                   irql, seqMask, acq>>
    /\ UNCHANGED <<resolverVars, ipiVars, ret, lastOp>>

\* KiReleaseSpinLock(&HalpSystemInterruptLock)
DisRelease(p) ==
    /\ At(p, "Disable", "release")
    /\ KiReleaseSpinLock(p)
    /\ stk' = Goto(p, "lower")
    /\ UNCHANGED <<HalpBuiltinInterruptEnable, EnableReg, irql, eisaCtl, lastBusCall,
                   seqMask, acq>>
    /\ UNCHANGED <<resolverVars, ipiVars, ret, lastOp>>

\* mutant: the level is lowered to PASSIVE_LEVEL, not to OldIrql
DisLower_Passive(p) ==
    /\ At(p, "Disable", "lower")
    /\ KeLowerIrql(p, PASSIVE_LEVEL)
    /\ stk' = Return(p)
    /\ UNCHANGED <<HalpBuiltinInterruptEnable, EnableReg, HalpSystemInterruptLock,
                   eisaCtl, lastBusCall, seqMask, acq>>
    /\ ret' = RetRecord(ret, "Disable", <<>>, Top(p).nWrites + Top(p).nBus)
    /\ UNCHANGED <<resolverVars, ipiVars, lastOp>>

\* KeLowerIrql(OldIrql); return
DisLower(p) ==
    /\ At(p, "Disable", "lower")
    /\ KeLowerIrql(p, Top(p).OldIrql)
    /\ stk' = Return(p)
    /\ UNCHANGED <<HalpBuiltinInterruptEnable, EnableReg, HalpSystemInterruptLock,
                   eisaCtl, lastBusCall, seqMask, acq>>
    /\ ret' = RetRecord(ret, "Disable", <<>>, Top(p).nWrites + Top(p).nBus)
    /\ UNCHANGED <<resolverVars, ipiVars, lastOp>>

----------------------------------------------------------------------------
(* HalEnableSystemInterrupt(Vector, Irql, InterruptMode)                   *)

\* mutant: the call of KeRaiseIrql is missing
HalEnableSystemInterrupt_NoRaise(p, Vector, Irql, InterruptMode) ==
    /\ CanCall(p)
    /\ stk' = Push(p, NewCall(p, "Enable", Vector, Irql, InterruptMode))
    /\ UNCHANGED <<HalpBuiltinInterruptEnable, EnableReg, HalpSystemInterruptLock,
                   irql, eisaCtl, lastBusCall, seqMask, acq>>
    /\ UNCHANGED <<resolverVars, ipiVars, ret, lastOp>>

\* entry and KeRaiseIrql(HIGH_LEVEL, &OldIrql)
HalEnableSystemInterrupt(p, Vector, Irql, InterruptMode) ==
    /\ CanCall(p)
    /\ stk' = Push(p, NewCall(p, "Enable", Vector, Irql, InterruptMode))
    /\ KeRaiseIrql(p, HIGH_LEVEL)
    /\ UNCHANGED <<HalpBuiltinInterruptEnable, EnableReg, HalpSystemInterruptLock,
                   eisaCtl, lastBusCall, seqMask, acq>>
    /\ UNCHANGED <<resolverVars, ipiVars, ret, lastOp>>

\* mutant: the call of KiAcquireSpinLock is missing
EnAcquire_NoLock(p) ==
    /\ At(p, "Enable", "acquire")
    /\ stk' = Goto(p, "test")
    /\ seqMask' = SeqApply(seqMask, "Enable", Top(p).Vector)
    /\ acq' = AcqRecord(acq, "Enable", Top(p).Vector)
    /\ UNCHANGED <<HalpBuiltinInterruptEnable, EnableReg, HalpSystemInterruptLock,
                   irql, eisaCtl, lastBusCall>>
    /\ lastOp' = LastOpRecord(lastOp, "Enable", Top(p).Vector)
    /\ UNCHANGED <<resolverVars, ipiVars, ret>>

\* KiAcquireSpinLock(&HalpSystemInterruptLock)
EnAcquire(p) ==
    /\ At(p, "Enable", "acquire")
    /\ KiAcquireSpinLock(p)
    /\ stk' = Goto(p, "test")
    /\ seqMask' = SeqApply(seqMask, "Enable", Top(p).Vector)
    /\ acq' = AcqRecord(acq, "Enable", Top(p).Vector)
    /\ UNCHANGED <<HalpBuiltinInterruptEnable, EnableReg, irql, eisaCtl, lastBusCall>>
    /\ lastOp' = LastOpRecord(lastOp, "Enable", Top(p).Vector)
    /\ UNCHANGED <<resolverVars, ipiVars, ret>>

\* the built-in range test and the load of HalpBuiltinInterruptEnable
EnTest(p) ==
    /\ At(p, "Enable", "test")
    /\ IF IsBuiltinVector(Top(p).Vector)
       THEN stk' = SetTop(p, [Top(p) EXCEPT !.pc = "store",
                                           !.tmp = HalpBuiltinInterruptEnable])
       ELSE stk' = Goto(p, "eisa")
    /\ UNCHANGED <<HalpBuiltinInterruptEnable, EnableReg, HalpSystemInterruptLock,
                   irql, eisaCtl, lastBusCall, seqMask, acq>>
    /\ UNCHANGED <<resolverVars, ipiVars, ret, lastOp>>

\* HalpBuiltinInterruptEnable |= (1 << (Vector - DEVICE_VECTORS - 1)): the store
EnStore(p) ==
    /\ At(p, "Enable", "store")
    /\ HalpBuiltinInterruptEnable' = EnableMask(Top(p).tmp, Top(p).Vector)
    /\ stk' = SetTop(p, [Top(p) EXCEPT !.pc = "write", !.tmp = 0])
    /\ UNCHANGED <<EnableReg, HalpSystemInterruptLock, irql, eisaCtl, lastBusCall,
                   seqMask, acq>>
    /\ UNCHANGED <<resolverVars, ipiVars, ret, lastOp>>

\* mutant: only the bit of the vector is written to the register
EnWrite_BitOnly(p) ==
    /\ At(p, "Enable", "write")
    /\ WriteEnableRegister(ShiftLeft(1, Top(p).Vector - DEVICE_VECTORS - 1))
    /\ stk' = SetTop(p, [Top(p) EXCEPT !.pc = "eisa", !.nWrites = @ + 1])
    /\ UNCHANGED <<HalpBuiltinInterruptEnable, HalpSystemInterruptLock, irql,
                   eisaCtl, lastBusCall, seqMask, acq>>
    /\ UNCHANGED <<resolverVars, ipiVars, ret, lastOp>>

\* WRITE_REGISTER_USHORT(&...->Enable, HalpBuiltinInterruptEnable)
EnWrite(p) ==
    /\ At(p, "Enable", "write")
    /\ WriteEnableRegister(HalpBuiltinInterruptEnable)
    /\ stk' = SetTop(p, [Top(p) EXCEPT !.pc = "eisa", !.nWrites = @ + 1])
    /\ UNCHANGED <<HalpBuiltinInterruptEnable, HalpSystemInterruptLock, irql,
                   eisaCtl, lastBusCall, seqMask, acq>>
    /\ UNCHANGED <<resolverVars, ipiVars, ret, lastOp>>

\* the EISA range test and HalpEnableEisaInterrupt(Vector, InterruptMode)
EnEisa(p) ==
    /\ At(p, "Enable", "eisa")
    /\ IF IsEisaVector(Top(p).Vector, Top(p).Irql)
       THEN /\ HalpEnableEisaInterrupt(Top(p).Vector, Top(p).InterruptMode)
            /\ stk' = SetTop(p, [Top(p) EXCEPT !.pc = "release", !.nBus = @ + 1])
       ELSE /\ stk' = Goto(p, "release")
            /\ UNCHANGED <<eisaCtl, lastBusCall>>
    /\ UNCHANGED <<HalpBuiltinInterruptEnable, EnableReg, HalpSystemInterruptLock,
                   irql, seqMask, acq>>
    /\ UNCHANGED <<resolverVars, ipiVars, ret, lastOp>>

\* KiReleaseSpinLock(&HalpSystemInterruptLock)
EnRelease(p) ==
    /\ At(p, "Enable", "release")
    /\ KiReleaseSpinLock(p)
    /\ stk' = Goto(p, "lower")
    /\ UNCHANGED <<HalpBuiltinInterruptEnable, EnableReg, irql, eisaCtl, lastBusCall,
                   seqMask, acq>>
    /\ UNCHANGED <<resolverVars, ipiVars, ret, lastOp>>

\* mutant: FALSE is returned when the call enabled nothing
EnLower_FalseIfNothing(p) ==
    /\ At(p, "Enable", "lower")
    /\ KeLowerIrql(p, Top(p).OldIrql)
    /\ stk' = Return(p)
    /\ UNCHANGED <<HalpBuiltinInterruptEnable, EnableReg, HalpSystemInterruptLock,
                   eisaCtl, lastBusCall, seqMask, acq>>
    /\ ret' = RetRecord(ret, "Enable",
                      IF Top(p).nWrites + Top(p).nBus = 0 THEN <<FALSE>>
                      ELSE <<TRUE>>, Top(p).nWrites + Top(p).nBus)
    /\ UNCHANGED <<resolverVars, ipiVars, lastOp>>

\* KeLowerIrql(OldIrql); return TRUE
EnLower(p) ==
    /\ At(p, "Enable", "lower")
    /\ KeLowerIrql(p, Top(p).OldIrql)
    /\ stk' = Return(p)
    /\ UNCHANGED <<HalpBuiltinInterruptEnable, EnableReg, HalpSystemInterruptLock,
                   eisaCtl, lastBusCall, seqMask, acq>>
    /\ ret' = RetRecord(ret, "Enable", <<TRUE>>, Top(p).nWrites + Top(p).nBus)
    /\ UNCHANGED <<resolverVars, ipiVars, lastOp>>

----------------------------------------------------------------------------
(* Interrupts: a source at level Level preempts processor p only while p   *)
(* runs below Level; the service routine runs at Level and, on exit, the   *)
(* preempted level is restored.                                            *)

Interrupt(p, Level) ==
    /\ irql[p] < Level
    /\ stk' = Push(p, [kind |-> "isr", prev |-> irql[p], level |-> Level,
                       done |-> 0])
    /\ irql' = [irql EXCEPT ![p] = Level]
    /\ UNCHANGED <<HalpBuiltinInterruptEnable, EnableReg, HalpSystemInterruptLock,
                   eisaCtl, lastBusCall, seqMask, acq>>
    /\ UNCHANGED <<resolverVars, ipiVars, ret, lastOp>>

InterruptReturn(p) ==
    /\ Depth(p) > 0
    /\ Top(p).kind = "isr"
    /\ irql' = [irql EXCEPT ![p] = Top(p).prev]
    /\ stk' = Pop(p)
    /\ UNCHANGED <<HalpBuiltinInterruptEnable, EnableReg, HalpSystemInterruptLock,
                   eisaCtl, lastBusCall, seqMask, acq>>
    /\ UNCHANGED <<resolverVars, ipiVars, ret, lastOp>>

----------------------------------------------------------------------------
(* HalRequestIpi(Mask).  A thread of processor p calls it; the body is     *)
(* compiled only when _DUO_ is defined.                                    *)

\* the bits set in a ULONG: the processors that a mask names
BitsOfULong(m) == BitsOf(m[2]) \cup {n + 16 : n \in BitsOf(m[1])}

\* WRITE_REGISTER_ULONG(&...->IpInterruptRequest.Long, Value): the register
\* takes the value and the interrupt is posted at the processors it names
\* before the next statement runs
WriteIpInterruptRequest(Value) ==
    /\ IpInterruptRequest' = Value
    /\ ipiPending' = ipiPending \cup BitsOfULong(Value)

\* mutant: the body is empty also when _DUO_ is defined
HalRequestIpi_NoWrite(p, Mask) ==
    /\ Depth(p) = 0
    /\ ipi[p].pc = "idle"
    /\ ipi' = [ipi EXCEPT ![p] = [pc |-> "return", Mask |-> Mask,
                                  nWrites |-> 0, posted |-> FALSE]]
    /\ UNCHANGED <<gateVars, resolverVars, DUO, IpInterruptRequest, ipiPending>>

\* entry
HalRequestIpi(p, Mask) ==
    /\ Depth(p) = 0
    /\ ipi[p].pc = "idle"
    /\ ipi' = [ipi EXCEPT ![p] = [pc |-> IF DUO THEN "write" ELSE "return",
                                  Mask |-> Mask,
                                  nWrites |-> 0,     \* history: register writes
                                  posted |-> FALSE]] \* history: see IpiWrite
    /\ UNCHANGED <<gateVars, resolverVars, DUO, IpInterruptRequest, ipiPending>>

\* mutant: the register is written with WRITE_REGISTER_USHORT
IpiWrite_Ushort(p) ==
    /\ Depth(p) = 0
    /\ ipi[p].pc = "write"
    /\ WriteIpInterruptRequest(<<0, ipi[p].Mask[2]>>)
    /\ ipi' = [ipi EXCEPT ![p] =
                  [ipi[p] EXCEPT !.pc = "return",
                                 !.nWrites = ipi[p].nWrites + 1,
                                 !.posted =
                                     /\ IpInterruptRequest' = ipi[p].Mask
                                     /\ BitsOfULong(ipi[p].Mask) \subseteq ipiPending']]
    /\ UNCHANGED <<gateVars, resolverVars, DUO>>

\* mutant: the write goes to the Enable register of the interrupt controller
IpiWrite_EnableRegister(p) ==
    /\ Depth(p) = 0
    /\ ipi[p].pc = "write"
    /\ WriteEnableRegister(ipi[p].Mask[2])
    /\ ipi' = [ipi EXCEPT ![p] =
                  [ipi[p] EXCEPT !.pc = "return",
                                 !.nWrites = ipi[p].nWrites + 1]]
    /\ UNCHANGED <<HalpBuiltinInterruptEnable, HalpSystemInterruptLock, irql, stk,
                   eisaCtl, lastBusCall, seqMask, acq, ret, lastOp>>
    /\ UNCHANGED <<resolverVars, DUO, IpInterruptRequest, ipiPending>>

\* WRITE_REGISTER_ULONG(&...->IpInterruptRequest.Long, Mask); posted records
\* whether, when the write is done, the register holds Mask and the
\* interrupt is posted at every processor of Mask
IpiWrite(p) ==
    /\ Depth(p) = 0
    /\ ipi[p].pc = "write"
    /\ WriteIpInterruptRequest(ipi[p].Mask)
    /\ ipi' = [ipi EXCEPT ![p] =
                  [ipi[p] EXCEPT !.pc = "return",
                                 !.nWrites = ipi[p].nWrites + 1,
                                 !.posted =
                                     /\ IpInterruptRequest' = ipi[p].Mask
                                     /\ BitsOfULong(ipi[p].Mask) \subseteq ipiPending']]
    /\ UNCHANGED <<gateVars, resolverVars, DUO>>

\* return; the record of the call is kept until the next call
IpiReturn(p) ==
    /\ Depth(p) = 0
    /\ ipi[p].pc = "return"
    /\ ipi' = [ipi EXCEPT ![p] = [ipi[p] EXCEPT !.pc = "idle"]]
    /\ UNCHANGED <<gateVars, resolverVars, DUO, IpInterruptRequest, ipiPending>>

----------------------------------------------------------------------------
(* Specification Spec: NumProcs processors, each taking interrupts, call   *)
(* the gate concurrently.                                                  *)

EisaRange == EISA_VECTORS .. (EISA_VECTORS + MAXIMUM_EISA_VECTOR - 1)

NoCall == [fn |-> "None", Vector |-> 0, mask |-> 0]

NoLastOp == [on |-> FALSE,
             op |-> [v \in (DEVICE_VECTORS + 1) .. MAXIMUM_BUILTIN_VECTOR |-> "None"]]

NoIpi == [pc |-> "idle", Mask |-> <<0, 0>>, nWrites |-> 0, posted |-> FALSE]

NoResolve == [InterfaceType |-> "None", BusNumber |-> <<0, 0>>,
              BusInterruptLevel |-> <<0, 0>>, BusInterruptVector |-> <<0, 0>>,
              Irql |-> 0, Affinity |-> 0, Vector |-> <<0, 0>>]

Init ==
    /\ HalpBuiltinInterruptEnable = 0
    /\ EnableReg = 0
    /\ HalpSystemInterruptLock = 0
    /\ irql = [p \in Procs |-> PASSIVE_LEVEL]
    /\ stk = [p \in Procs |-> <<>>]
    /\ eisaCtl = [v \in EisaRange |-> "Disabled"]
    /\ lastBusCall = [fn |-> "None", Vector |-> 0, InterruptMode |-> "None"]
    /\ seqMask = {}
    /\ acq = [on |-> FALSE, last |-> NoCall, prev |-> NoCall]
    /\ HalpEisaBusAffinity = 1
    /\ res = NoResolve
    /\ ret = [on |-> FALSE, fn |-> "None", value |-> <<>>, effects |-> 0]
    /\ lastOp = NoLastOp
    /\ DUO = TRUE
    /\ IpInterruptRequest = <<0, 0>>
    /\ ipiPending = {}
    /\ ipi = [p \in Procs |-> NoIpi]

\* arguments of the concurrent calls: two built-in vectors, the vector above
\* the built-in range, and an EISA vector with and without the EISA level
ConcArgs == {<<DEVICE_VECTORS + 1, DEVICE_LEVEL>>,
             <<DEVICE_VECTORS + 2, DEVICE_LEVEL>>,
             <<MAXIMUM_BUILTIN_VECTOR + 1, DEVICE_LEVEL>>,
             <<EISA_VECTORS, EISA_DEVICE_LEVEL>>,
             <<EISA_VECTORS, DEVICE_LEVEL>>}
ConcModes == {"Latched"}
IsrLevels == {EISA_DEVICE_LEVEL}

Step(p) ==
    \/ DisAcquire(p) \/ DisTest(p) \/ DisStore(p) \/ DisWrite(p) \/ DisEisa(p)
    \/ DisRelease(p) \/ DisLower(p)
    \/ EnAcquire(p) \/ EnTest(p) \/ EnStore(p) \/ EnWrite(p) \/ EnEisa(p)
    \/ EnRelease(p) \/ EnLower(p)

Next ==
    \E p \in Procs :
        \/ \E a \in ConcArgs : HalDisableSystemInterrupt(p, a[1], a[2])
        \/ \E a \in ConcArgs, m \in ConcModes :
               HalEnableSystemInterrupt(p, a[1], a[2], m)
        \/ Step(p)
        \/ \E l \in IsrLevels : Interrupt(p, l)
        \/ InterruptReturn(p)

Spec == Init /\ [][Next]_vars

----------------------------------------------------------------------------
(* Specification SpecMP: NumProcs processors call the gate concurrently,   *)
(* with the arguments of Spec and no interrupts.                           *)

NextMP ==
    \E p \in Procs :
        \/ \E a \in ConcArgs : HalDisableSystemInterrupt(p, a[1], a[2])
        \/ \E a \in ConcArgs, m \in ConcModes :
               HalEnableSystemInterrupt(p, a[1], a[2], m)
        \/ Step(p)

SpecMP == Init /\ [][NextMP]_vars

----------------------------------------------------------------------------
(* Specification SpecFair: the processors call the gate concurrently and   *)
(* take interrupts whose service routines call the gate.  Every processor  *)
(* keeps executing the call it is in, and a processor that spins on the    *)
(* lock takes it if the lock is free again and again.                      *)

\* a built-in vector and an EISA vector
FairArgs == {<<DEVICE_VECTORS + 1, DEVICE_LEVEL>>,
             <<EISA_VECTORS, EISA_DEVICE_LEVEL>>}

\* the steps of a call other than the lock acquisition
Run(p) ==
    \/ DisTest(p) \/ DisStore(p) \/ DisWrite(p) \/ DisEisa(p)
    \/ DisRelease(p) \/ DisLower(p)
    \/ EnTest(p) \/ EnStore(p) \/ EnWrite(p) \/ EnEisa(p)
    \/ EnRelease(p) \/ EnLower(p)

\* the lock acquisition of a call
Acquire(p) == DisAcquire(p) \/ EnAcquire(p)

NextFair ==
    \E p \in Procs :
        \/ \E a \in FairArgs : HalDisableSystemInterrupt(p, a[1], a[2])
        \/ \E a \in FairArgs, m \in ConcModes :
               HalEnableSystemInterrupt(p, a[1], a[2], m)
        \/ Step(p)
        \/ \E l \in IsrLevels : Interrupt(p, l)
        \/ InterruptReturn(p)

Fairness == \A p \in Procs : WF_vars(Run(p)) /\ SF_vars(Acquire(p))

SpecFair == Init /\ [][NextFair]_vars /\ Fairness

----------------------------------------------------------------------------
(* Specification SpecLast: NumProcs processors call the gate concurrently  *)
(* on two built-in vectors and on the vector above the built-in range, and *)
(* the last call on every built-in vector is recorded.                     *)

LastVectors == {DEVICE_VECTORS + 1, DEVICE_VECTORS + 2,
                MAXIMUM_BUILTIN_VECTOR + 1}

InitLast ==
    /\ HalpBuiltinInterruptEnable = 0
    /\ EnableReg = 0
    /\ HalpSystemInterruptLock = 0
    /\ irql = [p \in Procs |-> PASSIVE_LEVEL]
    /\ stk = [p \in Procs |-> <<>>]
    /\ eisaCtl = [v \in EisaRange |-> "Disabled"]
    /\ lastBusCall = [fn |-> "None", Vector |-> 0, InterruptMode |-> "None"]
    /\ seqMask = {}
    /\ acq = [on |-> FALSE, last |-> NoCall, prev |-> NoCall]
    /\ HalpEisaBusAffinity = 1
    /\ res = NoResolve
    /\ ret = [on |-> FALSE, fn |-> "None", value |-> <<>>, effects |-> 0]
    /\ lastOp = [NoLastOp EXCEPT !.on = TRUE]
    /\ DUO = TRUE
    /\ IpInterruptRequest = <<0, 0>>
    /\ ipiPending = {}
    /\ ipi = [p \in Procs |-> NoIpi]

NextLast ==
    \E p \in Procs :
        \/ \E v \in LastVectors : HalDisableSystemInterrupt(p, v, DEVICE_LEVEL)
        \/ \E v \in LastVectors :
               HalEnableSystemInterrupt(p, v, DEVICE_LEVEL, "Latched")
        \/ Step(p)

SpecLast == InitLast /\ [][NextLast]_vars

----------------------------------------------------------------------------
(* Specification SpecSeq: one processor calls the gate, one call after the *)
(* other, with vectors on and around every boundary of the two ranges.     *)

SeqVectors == {0, DEVICE_VECTORS, DEVICE_VECTORS + 1, DEVICE_VECTORS + 2,
               MAXIMUM_BUILTIN_VECTOR, MAXIMUM_BUILTIN_VECTOR + 1,
               EISA_VECTORS - 1, EISA_VECTORS,
               EISA_VECTORS + MAXIMUM_EISA_VECTOR - 1,
               EISA_VECTORS + MAXIMUM_EISA_VECTOR}
SeqIrqls == {DEVICE_LEVEL, EISA_DEVICE_LEVEL}

NextSeq ==
    \/ \E v \in SeqVectors, i \in SeqIrqls : HalDisableSystemInterrupt(1, v, i)
    \/ \E v \in SeqVectors, i \in SeqIrqls, m \in InterruptModes :
           HalEnableSystemInterrupt(1, v, i, m)
    \/ Step(1)

\* the state after controller bring-up, with the returns recorded
InitSeq ==
    /\ HalpBuiltinInterruptEnable = 0
    /\ EnableReg = 0
    /\ HalpSystemInterruptLock = 0
    /\ irql = [p \in Procs |-> PASSIVE_LEVEL]
    /\ stk = [p \in Procs |-> <<>>]
    /\ eisaCtl = [v \in EisaRange |-> "Disabled"]
    /\ lastBusCall = [fn |-> "None", Vector |-> 0, InterruptMode |-> "None"]
    /\ seqMask = {}
    /\ acq = [on |-> FALSE, last |-> NoCall, prev |-> NoCall]
    /\ HalpEisaBusAffinity = 1
    /\ res = NoResolve
    /\ ret = [on |-> TRUE, fn |-> "None", value |-> <<>>, effects |-> 0]
    /\ lastOp = NoLastOp
    /\ DUO = TRUE
    /\ IpInterruptRequest = <<0, 0>>
    /\ ipiPending = {}
    /\ ipi = [p \in Procs |-> NoIpi]

SpecSeq == InitSeq /\ [][NextSeq]_vars

----------------------------------------------------------------------------
(* Specification SpecRT: one processor calls the gate on built-in vectors  *)
(* and on one vector outside the range, and the last two calls are         *)
(* recorded.                                                               *)

RtVectors == {DEVICE_VECTORS + 1, DEVICE_VECTORS + 2, MAXIMUM_BUILTIN_VECTOR,
              MAXIMUM_BUILTIN_VECTOR + 1}

InitRT ==
    /\ HalpBuiltinInterruptEnable = 0
    /\ EnableReg = 0
    /\ HalpSystemInterruptLock = 0
    /\ irql = [p \in Procs |-> PASSIVE_LEVEL]
    /\ stk = [p \in Procs |-> <<>>]
    /\ eisaCtl = [v \in EisaRange |-> "Disabled"]
    /\ lastBusCall = [fn |-> "None", Vector |-> 0, InterruptMode |-> "None"]
    /\ seqMask = {}
    /\ acq = [on |-> TRUE, last |-> NoCall, prev |-> NoCall]
    /\ HalpEisaBusAffinity = 1
    /\ res = NoResolve
    /\ ret = [on |-> FALSE, fn |-> "None", value |-> <<>>, effects |-> 0]
    /\ lastOp = NoLastOp
    /\ DUO = TRUE
    /\ IpInterruptRequest = <<0, 0>>
    /\ ipiPending = {}
    /\ ipi = [p \in Procs |-> NoIpi]

NextRT ==
    \/ \E v \in RtVectors : HalDisableSystemInterrupt(1, v, DEVICE_LEVEL)
    \/ \E v \in RtVectors : HalEnableSystemInterrupt(1, v, DEVICE_LEVEL, "Latched")
    \/ Step(1)

SpecRT == InitRT /\ [][NextRT]_vars

----------------------------------------------------------------------------
(* Specification SpecResolve: device initialisation resolves bus           *)
(* interrupts; the arguments cover the three kinds of interface type, the  *)
(* remapped level 2, and the ends of the 8-bit, 16-bit and 32-bit ranges.  *)

InterfaceTypes == {"Internal", "Isa", "Eisa", "MicroChannel", "TurboChannel"}
BusNumbers == {ToULong(0), ToULong(1)}
BusLevels == {ToULong(0), ToULong(2), ToULong(9), ToULong(15), ToULong(255),
              ToULong(256), ULong(65535, 65504), ULong(65535, 65535)}
BusVectors == {ToULong(0), ToULong(DEVICE_VECTORS + 1), ULong(65535, 65535)}
EisaAffinities == {1, 3}

InitResolve ==
    /\ HalpBuiltinInterruptEnable = 0
    /\ EnableReg = 0
    /\ HalpSystemInterruptLock = 0
    /\ irql = [p \in Procs |-> PASSIVE_LEVEL]
    /\ stk = [p \in Procs |-> <<>>]
    /\ eisaCtl = [v \in EisaRange |-> "Disabled"]
    /\ lastBusCall = [fn |-> "None", Vector |-> 0, InterruptMode |-> "None"]
    /\ seqMask = {}
    /\ acq = [on |-> FALSE, last |-> NoCall, prev |-> NoCall]
    /\ HalpEisaBusAffinity \in EisaAffinities
    /\ res = NoResolve
    /\ ret = [on |-> FALSE, fn |-> "None", value |-> <<>>, effects |-> 0]
    /\ lastOp = NoLastOp
    /\ DUO = TRUE
    /\ IpInterruptRequest = <<0, 0>>
    /\ ipiPending = {}
    /\ ipi = [p \in Procs |-> NoIpi]

NextResolve ==
    \E t \in InterfaceTypes, n \in BusNumbers, l \in BusLevels, v \in BusVectors :
        Resolve(t, n, l, v)

SpecResolve == InitResolve /\ [][NextResolve]_vars

----------------------------------------------------------------------------
(* Specification SpecFrame: processor 1 calls the gate while bus           *)
(* interrupts are resolved and the processors request interprocessor       *)
(* interrupts.                                                             *)

FrameArgs == {<<DEVICE_VECTORS + 1, DEVICE_LEVEL>>,
              <<EISA_VECTORS, EISA_DEVICE_LEVEL>>}
FrameTypes == {"Internal", "Isa", "TurboChannel"}
FrameLevels == {<<0, 2>>, <<0, 255>>}
FrameMasks == {<<0, 0>>, <<0, 10>>}

NextFrame ==
    \/ \E a \in FrameArgs : HalDisableSystemInterrupt(1, a[1], a[2])
    \/ \E a \in FrameArgs : HalEnableSystemInterrupt(1, a[1], a[2], "Latched")
    \/ Step(1)
    \/ \E t \in FrameTypes, l \in FrameLevels :
           Resolve(t, <<0, 0>>, l, <<0, DEVICE_VECTORS + 1>>)
    \/ \E p \in Procs :
           \/ \E m \in FrameMasks : HalRequestIpi(p, m)
           \/ IpiWrite(p)
           \/ IpiReturn(p)

SpecFrame == Init /\ [][NextFrame]_vars

----------------------------------------------------------------------------
(* Specification SpecCompose: device initialisation resolves an interrupt  *)
(* of an external bus, of a bus that is not on the system or of a built-in *)
(* device, and passes the vector and the level it gets to the gate.  The   *)
(* mask has the bits that earlier calls left in it.                        *)

\* interrupt levels of the EISA bus: the first two, the remapped one and its
\* image, the last one
ComposeLevels == {ToULong(0), ToULong(1), ToULong(2), ToULong(9), ToULong(15)}
\* <<InterfaceType, BusInterruptLevel, BusInterruptVector>>
ComposeInputs ==
    {<<t, l, <<0, 0>>>> : t \in {"Isa", "Eisa", "MicroChannel"}, l \in ComposeLevels}
        \cup {<<"Internal", ToULong(DEVICE_LEVEL), ToULong(DEVICE_VECTORS + 1)>>}
ComposeMasks == {0, 512}

\* the value of a ULONG below 2^31
UlongValue(u) == u[1] * 65536 + u[2]

InitCompose ==
    /\ HalpBuiltinInterruptEnable \in ComposeMasks
    /\ EnableReg = HalpBuiltinInterruptEnable
    /\ HalpSystemInterruptLock = 0
    /\ irql = [p \in Procs |-> PASSIVE_LEVEL]
    /\ stk = [p \in Procs |-> <<>>]
    /\ eisaCtl = [v \in EisaRange |-> "Disabled"]
    /\ lastBusCall = [fn |-> "None", Vector |-> 0, InterruptMode |-> "None"]
    /\ seqMask = BitsOf(HalpBuiltinInterruptEnable)
    /\ acq = [on |-> FALSE, last |-> NoCall, prev |-> NoCall]
    /\ HalpEisaBusAffinity = 1
    /\ res = NoResolve
    /\ ret = [on |-> FALSE, fn |-> "None", value |-> <<>>, effects |-> 0]
    /\ lastOp = NoLastOp
    /\ DUO = TRUE
    /\ IpInterruptRequest = <<0, 0>>
    /\ ipiPending = {}
    /\ ipi = [p \in Procs |-> NoIpi]

\* the interrupt is resolved before the gate is called
ComposeResolve(InterfaceType, BusInterruptLevel, BusInterruptVector) ==
    /\ Depth(1) = 0
    /\ Resolve(InterfaceType, <<0, 0>>, BusInterruptLevel, BusInterruptVector)

\* the gate is called with what the resolver returned
ComposeEnable(InterruptMode) ==
    /\ res # NoResolve
    /\ HalEnableSystemInterrupt(1, UlongValue(res.Vector), res.Irql, InterruptMode)

ComposeDisable ==
    /\ res # NoResolve
    /\ HalDisableSystemInterrupt(1, UlongValue(res.Vector), res.Irql)

NextCompose ==
    \/ \E i \in ComposeInputs : ComposeResolve(i[1], i[2], i[3])
    \/ \E m \in InterruptModes : ComposeEnable(m)
    \/ ComposeDisable
    \/ Step(1)

SpecCompose == InitCompose /\ [][NextCompose]_vars

----------------------------------------------------------------------------
(* Specification SpecIpi: threads request interprocessor interrupts, in a  *)
(* build with _DUO_ (every processor calls) and in a build without it      *)
(* (a uniprocessor: processor 1 calls).                                    *)

\* no processor, processors 1 and 3, processor 0, a processor of the high
\* half, every processor
IpiMasks == {<<0, 0>>, <<0, 10>>, <<0, 1>>, <<1, 0>>, <<65535, 65535>>}

InitIpi ==
    /\ HalpBuiltinInterruptEnable = 0
    /\ EnableReg = 0
    /\ HalpSystemInterruptLock = 0
    /\ irql = [p \in Procs |-> PASSIVE_LEVEL]
    /\ stk = [p \in Procs |-> <<>>]
    /\ eisaCtl = [v \in EisaRange |-> "Disabled"]
    /\ lastBusCall = [fn |-> "None", Vector |-> 0, InterruptMode |-> "None"]
    /\ seqMask = {}
    /\ acq = [on |-> FALSE, last |-> NoCall, prev |-> NoCall]
    /\ HalpEisaBusAffinity = 1
    /\ res = NoResolve
    /\ ret = [on |-> FALSE, fn |-> "None", value |-> <<>>, effects |-> 0]
    /\ lastOp = NoLastOp
    /\ DUO \in BOOLEAN
    /\ IpInterruptRequest = <<0, 0>>
    /\ ipiPending = {}
    /\ ipi = [p \in Procs |-> NoIpi]

\* the processors of the build
IpiProcs == IF DUO THEN Procs ELSE {1}

\* a thread of a processor of the build calls HalRequestIpi
IpiCall(p, Mask) == p \in IpiProcs /\ HalRequestIpi(p, Mask)

NextIpi ==
    \E p \in Procs :
        \/ \E m \in IpiMasks : IpiCall(p, m)
        \/ IpiWrite(p)
        \/ IpiReturn(p)

SpecIpi == InitIpi /\ [][NextIpi]_vars

----------------------------------------------------------------------------
(* Properties.                                                             *)

\* the frames of p that are calls of a gate routine
CallFrames(p) == {i \in 1 .. Depth(p) : IsCall(stk[p][i])}

\* every call has returned
Quiescent == \A p \in Procs : CallFrames(p) = {}

\* p is inside a gate routine, at one of the program counters pcs
InCall(p, pcs) ==
    /\ Depth(p) > 0
    /\ IsCall(Top(p))
    /\ Top(p).pc \in pcs

\* the step is taken by processor p
Acts(p) == stk'[p] # stk[p]

\* the mask bit of a built-in vector
MaskBit(Vector) == Vector - DEVICE_VECTORS - 1

\* the program counters between KiAcquireSpinLock and KiReleaseSpinLock
CriticalPcs == {"test", "store", "write", "eisa", "release"}

\* p has a call between KiAcquireSpinLock and KiReleaseSpinLock
InCritical(p) ==
    \E i \in CallFrames(p) : stk[p][i].pc \in CriticalPcs

(* C1: concurrent enable/disable calls never change a mask bit of another  *)
(* vector: a step changes the mask only as the store of a call, and then   *)
(* only the bit of that call's vector; and when every call has returned    *)
(* the mask is the result of applying the calls' set-bit / clear-bit       *)
(* operations one after another in lock-acquisition order.                 *)
C1_NoLostUpdate ==
    [][ /\ HalpBuiltinInterruptEnable' # HalpBuiltinInterruptEnable =>
              \E p \in Procs :
                  /\ InCall(p, {"store"})
                  /\ Acts(p)
                  /\ \A n \in 0 .. 15 :
                         n # MaskBit(Top(p).Vector) =>
                             Bit(HalpBuiltinInterruptEnable', n) =
                                 Bit(HalpBuiltinInterruptEnable, n)
        /\ Quiescent' => BitsOf(HalpBuiltinInterruptEnable') = seqMask'
      ]_vars

\* two processors have enabled different built-in vectors in calls that
\* overlapped (the first has not returned, the second has stored its bit),
\* and both bits are set
C1_Witness ==
    \E p \in Procs, q \in Procs :
        /\ p # q
        /\ At(p, "Enable", "lower") /\ Top(p).Vector = DEVICE_VECTORS + 1
        /\ At(q, "Enable", "write") /\ Top(q).Vector = DEVICE_VECTORS + 2
        /\ BitsOf(HalpBuiltinInterruptEnable) = {0, 1}

(* C2: whenever HalpSystemInterruptLock is free the Enable register holds  *)
(* the value of the mirror HalpBuiltinInterruptEnable; a call that has     *)
(* just taken the lock finds them equal; and a call on a built-in vector   *)
(* has, after its register write, written the register exactly once, with  *)
(* the entire mirror.                                                      *)
C2_MirrorEqualsRegister ==
    /\ HalpSystemInterruptLock = 0 => EnableReg = HalpBuiltinInterruptEnable
    /\ \A p \in Procs :
           /\ InCall(p, {"test", "eisa", "release"}) =>
                  EnableReg = HalpBuiltinInterruptEnable
           /\ InCall(p, {"eisa", "release", "lower"}) =>
                  Top(p).nWrites = (IF IsBuiltinVector(Top(p).Vector) THEN 1 ELSE 0)

\* the lock is free, a disable of a built-in vector has written the register
\* once and is about to return, and register and mirror hold the other bit
C2_Witness ==
    /\ HalpSystemInterruptLock = 0
    /\ EnableReg = 2
    /\ HalpBuiltinInterruptEnable = 2
    /\ \E p \in Procs :
           /\ At(p, "Disable", "lower")
           /\ Top(p).Vector = DEVICE_VECTORS + 1
           /\ Top(p).nWrites = 1

(* C3: at most one processor is between KiAcquireSpinLock and              *)
(* KiReleaseSpinLock of HalEnableSystemInterrupt or                        *)
(* HalDisableSystemInterrupt.                                              *)
C3_MutualExclusion ==
    Cardinality({p \in Procs : InCritical(p)}) <= 1

\* one processor is in its critical section while another spins for the lock
C3_Witness ==
    \E p \in Procs, q \in Procs :
        /\ p # q
        /\ InCall(p, {"store"})
        /\ InCall(q, {"acquire"})

\* the order of the program counters of a gate routine
PcOrder == {<<"acquire", "test">>, <<"test", "store">>, <<"test", "eisa">>,
            <<"store", "write">>, <<"write", "eisa">>, <<"eisa", "release">>,
            <<"release", "lower">>}

\* what the position of every call says about the lock and the level
ProtocolInv ==
    /\ \A p \in Procs : \A i \in CallFrames(p) :
           /\ irql[p] = HIGH_LEVEL
           /\ i = Depth(p)
           /\ stk[p][i].pc = "acquire" =>
                  /\ HalpSystemInterruptLock # p
                  /\ stk[p][i].nWrites = 0
                  /\ stk[p][i].nBus = 0
           /\ stk[p][i].pc \in CriticalPcs => HalpSystemInterruptLock = p
           /\ stk[p][i].pc = "lower" => HalpSystemInterruptLock # p
    /\ \A p \in Procs :
           HalpSystemInterruptLock = p => irql[p] = HIGH_LEVEL /\ InCritical(p)

\* the step writes the mask or the register, or calls the EISA collaborator
Effect ==
    \/ HalpBuiltinInterruptEnable' # HalpBuiltinInterruptEnable
    \/ EnableReg' # EnableReg
    \/ eisaCtl' # eisaCtl
    \/ lastBusCall' # lastBusCall
    \/ \E p \in Procs :
           /\ InCall(p, CriticalPcs)
           /\ Acts(p)
           /\ \/ Top(p).nWrites # stk'[p][Depth(p)].nWrites
              \/ Top(p).nBus # stk'[p][Depth(p)].nBus

(* C6: every call goes through raise to HIGH_LEVEL, acquire, mask update   *)
(* then register write and/or bus delegation, release, lower, in this      *)
(* order; the holder of HalpSystemInterruptLock runs at HIGH_LEVEL; every  *)
(* write of the mask or of the register and every call of the EISA         *)
(* collaborator is made by the holder of the lock at HIGH_LEVEL; and no    *)
(* interrupt service routine is ever on top of a call in progress.         *)
C6_GateProtocol ==
    [][ /\ ProtocolInv'
        /\ Effect =>
              \E p \in Procs :
                  /\ Acts(p)
                  /\ HalpSystemInterruptLock = p /\ HalpSystemInterruptLock' = p
                  /\ irql[p] = HIGH_LEVEL /\ irql'[p] = HIGH_LEVEL
        /\ \A p \in Procs :
               (InCall(p, CriticalPcs \cup {"acquire"}) /\ Acts(p)) =>
                   /\ Len(stk'[p]) = Len(stk[p])
                   /\ <<Top(p).pc, stk'[p][Depth(p)].pc>> \in PcOrder
      ]_vars

\* a call made by an interrupt service routine has stored the mask and has
\* not written the register yet: it holds the lock at HIGH_LEVEL
C6_Witness ==
    \E p \in Procs :
        /\ Depth(p) = 2
        /\ stk[p][1].kind = "isr"
        /\ At(p, "Enable", "write")
        /\ HalpBuiltinInterruptEnable # EnableReg
        /\ HalpSystemInterruptLock = p
        /\ irql[p] = HIGH_LEVEL

\* the level at which the running context of p runs outside the gate
ContextLevel(p) == IF Depth(p) = 0 THEN PASSIVE_LEVEL ELSE Top(p).level

(* C7: when HalEnableSystemInterrupt or HalDisableSystemInterrupt returns, *)
(* whatever the vector, the Irql and the mode, the processor is back at    *)
(* the level it had immediately before the call and does not hold          *)
(* HalpSystemInterruptLock; a call made by an interrupt service routine    *)
(* returns to the level of that routine.                                   *)
C7_RestoreOnExit ==
    [][ \A p \in Procs :
            (InCall(p, {"lower"}) /\ Acts(p)) =>
                /\ Len(stk'[p]) = Len(stk[p]) - 1
                /\ irql'[p] = Top(p).entryIrql
                /\ HalpSystemInterruptLock' # p
                /\ Outside(p)' /\ irql'[p] = ContextLevel(p)'
      ]_vars

\* an interrupt service routine at EISA_DEVICE_LEVEL has made a call that
\* has returned, and runs at its own level without the lock
C7_Witness ==
    \E p \in Procs :
        /\ Depth(p) = 1
        /\ Top(p).kind = "isr"
        /\ Top(p).done = 1
        /\ Top(p).level = EISA_DEVICE_LEVEL
        /\ irql[p] = EISA_DEVICE_LEVEL
        /\ HalpSystemInterruptLock # p

\* the last two calls that took the lock are an enable and then a disable of
\* the same built-in vector, and the disable has left its critical section
RoundTrip ==
    /\ acq.on
    /\ acq.prev.fn = "Enable"
    /\ acq.last.fn = "Disable"
    /\ acq.prev.Vector = acq.last.Vector
    /\ acq.last.Vector \in (DEVICE_VECTORS + 1) .. MAXIMUM_BUILTIN_VECTOR
    /\ HalpSystemInterruptLock = 0

(* C4 as stated: HalEnableSystemInterrupt(V) followed by                   *)
(* HalDisableSystemInterrupt(V), with no gate call in between, restores    *)
(* the mask bit of V to the value it had before the enable, whether that   *)
(* value was clear or set.                                                 *)
C4_RoundTripRestores ==
    RoundTrip =>
        Bit(HalpBuiltinInterruptEnable, MaskBit(acq.last.Vector)) =
            Bit(acq.prev.mask, MaskBit(acq.last.Vector))

(* C4 amended: HalEnableSystemInterrupt(V) followed by                     *)
(* HalDisableSystemInterrupt(V), with no gate call in between, leaves the  *)
(* mask bit of V clear and every other bit as it was before the enable:    *)
(* the bit of V is restored when it was clear before the enable.           *)
C4_RoundTripClears ==
    RoundTrip =>
        /\ Bit(HalpBuiltinInterruptEnable, MaskBit(acq.last.Vector)) = 0
        /\ BitsOf(HalpBuiltinInterruptEnable) =
               BitsOf(acq.prev.mask) \ {MaskBit(acq.last.Vector)}

\* an enable and a disable of vector DEVICE_VECTORS + 2 have been made in a
\* row, starting with the bit clear and the bit of another vector set
C4_Witness ==
    /\ RoundTrip
    /\ acq.last.Vector = DEVICE_VECTORS + 2
    /\ acq.prev.mask = 1
    /\ HalpBuiltinInterruptEnable = 1

(* C5: HalEnableSystemInterrupt(V) on a built-in vector whose bit is       *)
(* already set leaves every bit of HalpBuiltinInterruptEnable as it was;   *)
(* two enables of V in a row give the mask that the first one gave, with   *)
(* the bit of V set.                                                       *)
C5_EnableIdempotent ==
    /\ ( /\ acq.on
         /\ acq.last.fn = "Enable"
         /\ acq.last.Vector \in (DEVICE_VECTORS + 1) .. MAXIMUM_BUILTIN_VECTOR
         /\ Bit(acq.last.mask, MaskBit(acq.last.Vector)) = 1
         /\ HalpSystemInterruptLock = 0 )
       => HalpBuiltinInterruptEnable = acq.last.mask
    /\ ( /\ acq.on
         /\ acq.prev.fn = "Enable"
         /\ acq.last.fn = "Enable"
         /\ acq.prev.Vector = acq.last.Vector
         /\ acq.last.Vector \in (DEVICE_VECTORS + 1) .. MAXIMUM_BUILTIN_VECTOR
         /\ HalpSystemInterruptLock = 0 )
       => /\ HalpBuiltinInterruptEnable = acq.last.mask
          /\ Bit(HalpBuiltinInterruptEnable, MaskBit(acq.last.Vector)) = 1

\* vector MAXIMUM_BUILTIN_VECTOR has been enabled twice in a row while the bit
\* of another vector was set, and the mask is the one the first enable gave
C5_Witness ==
    /\ acq.on
    /\ acq.prev.fn = "Enable" /\ acq.prev.Vector = MAXIMUM_BUILTIN_VECTOR
    /\ acq.last.fn = "Enable" /\ acq.last.Vector = MAXIMUM_BUILTIN_VECTOR
    /\ acq.prev.mask = 1
    /\ acq.last.mask = 513
    /\ HalpSystemInterruptLock = 0
    /\ HalpBuiltinInterruptEnable = 513

\* the frame of the call that processor p enters or steps in
Actor(p) ==
    IF Len(stk'[p]) > Len(stk[p]) THEN stk'[p][Len(stk'[p])] ELSE Top(p)

\* the vector is outside the built-in range, and outside the external-bus
\* range or passed with an Irql other than EISA_DEVICE_LEVEL
OutOfRange(Vector, Irql) ==
    /\ Vector <= DEVICE_VECTORS \/ Vector > MAXIMUM_BUILTIN_VECTOR
    /\ \/ Vector < EISA_VECTORS
       \/ Vector >= EISA_VECTORS + MAXIMUM_EISA_VECTOR
       \/ Irql # EISA_DEVICE_LEVEL

AllPcs == CriticalPcs \cup {"acquire", "lower"}

(* C8: no step of a call of HalEnableSystemInterrupt or                    *)
(* HalDisableSystemInterrupt whose Vector is outside the built-in range    *)
(* (DEVICE_VECTORS itself included), and outside the external-bus range or *)
(* passed with Irql # EISA_DEVICE_LEVEL, changes the mask, writes the      *)
(* Enable register or calls the external-bus routine: only the lock and    *)
(* the IRQL change.                                                        *)
C8_OutOfRangeNoOp ==
    [][ \A p \in Procs :
            ( /\ Acts(p)
              /\ IsCall(Actor(p))
              /\ OutOfRange(Actor(p).Vector, Actor(p).Irql) )
            => /\ UNCHANGED <<HalpBuiltinInterruptEnable, EnableReg, eisaCtl,
                              lastBusCall, seqMask>>
               /\ Actor(p).nWrites = 0
               /\ Actor(p).nBus = 0
               /\ InCall(p, AllPcs)' =>
                      Top(p)'.nWrites = 0 /\ Top(p)'.nBus = 0
      ]_vars

\* a disable of vector DEVICE_VECTORS, the exclusive base of the built-in
\* range, has released the lock without a register write or a bus call,
\* while a built-in and an EISA interrupt are enabled
C8_Witness ==
    /\ At(1, "Disable", "lower")
    /\ Top(1).Vector = DEVICE_VECTORS
    /\ Top(1).nWrites = 0
    /\ Top(1).nBus = 0
    /\ HalpBuiltinInterruptEnable = 1
    /\ eisaCtl[EISA_VECTORS] = "Latched"

\* the vector lies in the external-bus range and Irql is EISA_DEVICE_LEVEL
EisaCase(Vector, Irql) ==
    /\ Vector \in EISA_VECTORS .. (EISA_VECTORS + MAXIMUM_EISA_VECTOR - 1)
    /\ Irql = EISA_DEVICE_LEVEL

\* the call of the external-bus routine that the gate call f makes
BusCallOf(f) ==
    [fn |-> IF f.fn = "Enable" THEN "HalpEnableEisaInterrupt"
            ELSE "HalpDisableEisaInterrupt",
     Vector |-> f.Vector,
     InterruptMode |-> f.InterruptMode]

(* C9: a gate call calls the external-bus routine (HalpEnableEisaInterrupt *)
(* with the same Vector and InterruptMode, HalpDisableEisaInterrupt with   *)
(* the same Vector) exactly once if Vector lies in the external-bus range  *)
(* and Irql = EISA_DEVICE_LEVEL, and never otherwise; and no call both     *)
(* writes the built-in mask and calls the external-bus routine.            *)
C9_BusDelegation ==
    \A p \in Procs :
        /\ InCall(p, {"acquire", "test", "store", "write", "eisa"}) =>
               Top(p).nBus = 0
        /\ InCall(p, {"release", "lower"}) =>
               Top(p).nBus = (IF EisaCase(Top(p).Vector, Top(p).Irql) THEN 1 ELSE 0)
        /\ (InCall(p, {"release"}) /\ EisaCase(Top(p).Vector, Top(p).Irql)) =>
               /\ lastBusCall = BusCallOf(Top(p))
               /\ eisaCtl[Top(p).Vector] =
                      (IF Top(p).fn = "Enable" THEN Top(p).InterruptMode
                       ELSE "Disabled")
        /\ InCall(p, AllPcs) => Top(p).nWrites + Top(p).nBus <= 1

\* an enable of the last vector of the external-bus range at
\* EISA_DEVICE_LEVEL has called HalpEnableEisaInterrupt once, with its vector
\* and its mode, and has not written the built-in mask
C9_Witness ==
    /\ At(1, "Enable", "release")
    /\ Top(1).Vector = EISA_VECTORS + MAXIMUM_EISA_VECTOR - 1
    /\ Top(1).Irql = EISA_DEVICE_LEVEL
    /\ Top(1).InterruptMode = "LevelSensitive"
    /\ Top(1).nBus = 1
    /\ Top(1).nWrites = 0
    /\ lastBusCall = [fn |-> "HalpEnableEisaInterrupt",
                      Vector |-> EISA_VECTORS + MAXIMUM_EISA_VECTOR - 1,
                      InterruptMode |-> "LevelSensitive"]

(* C10: for InterfaceType Internal, HalGetInterruptVector returns          *)
(* BusInterruptVector unchanged, stores the original BusInterruptLevel     *)
(* unchanged in *Irql and stores 1 in *Affinity, for every 32-bit          *)
(* BusNumber, BusInterruptLevel and BusInterruptVector.  The store goes    *)
(* through the cast (KIRQL), which keeps the low 8 bits of the level.      *)
C10_InternalUnchanged ==
    res.InterfaceType = "Internal" =>
        /\ res.Vector = res.BusInterruptVector
        /\ ToULong(res.Irql) = res.BusInterruptLevel
        /\ res.Affinity = 1

\* the interface type is an external bus of this system
External(InterfaceType) == InterfaceType \in {"Isa", "Eisa"}

\* L + EISA_VECTORS as an unsigned 32-bit sum, by 16-bit halves
PlusEisaVectors(L) ==
    <<(L[1] + (IF L[2] + EISA_VECTORS >= 65536 THEN 1 ELSE 0)) % 65536,
      (L[2] + EISA_VECTORS) % 65536>>

\* two bus interrupt levels are the same, or are the levels 2 and 9
SameOrRemapped(L1, L2) ==
    \/ L1 = L2
    \/ {L1, L2} = {<<0, 2>>, <<0, 9>>}

(* C11: for InterfaceType Isa or Eisa, HalGetInterruptVector stores        *)
(* EISA_DEVICE_LEVEL in *Irql and HalpEisaBusAffinity in *Affinity and,    *)
(* for every level L other than 2, returns L + EISA_VECTORS (a ULONG sum); *)
(* two calls in a row whose levels are equal, or are 2 and 9, return the   *)
(* same vector, level and affinity whatever their BusNumber, their         *)
(* BusInterruptVector and whichever of Isa and Eisa their types are.       *)
C11_ExternalBranch ==
    [][ /\ External(res'.InterfaceType) =>
               /\ res'.Irql = EISA_DEVICE_LEVEL
               /\ res'.Affinity = HalpEisaBusAffinity
               /\ res'.BusInterruptLevel # <<0, 2>> =>
                      res'.Vector = PlusEisaVectors(res'.BusInterruptLevel)
        /\ ( /\ External(res.InterfaceType)
             /\ External(res'.InterfaceType)
             /\ SameOrRemapped(res.BusInterruptLevel, res'.BusInterruptLevel) )
           => /\ res'.Vector = res.Vector
              /\ res'.Irql = res.Irql
              /\ res'.Affinity = res.Affinity
      ]_vars

\* level 2 of the Isa bus, with bus number 1 and the largest bus vector, has
\* been resolved to the vector of level 9
C11_Witness ==
    /\ res.InterfaceType = "Isa"
    /\ res.BusNumber = <<0, 1>>
    /\ res.BusInterruptLevel = <<0, 2>>
    /\ res.BusInterruptVector = <<65535, 65535>>
    /\ res.Vector = <<0, 9 + EISA_VECTORS>>
    /\ res.Irql = EISA_DEVICE_LEVEL
    /\ res.Affinity = 3
    /\ HalpEisaBusAffinity = 3

\* the interface type is a bus that is not on this system
NotPresent(InterfaceType) ==
    InterfaceType \in {"MicroChannel", "TurboChannel"}

(* C12: for an InterfaceType that is neither Internal nor Isa nor Eisa,    *)
(* HalGetInterruptVector returns vector 0 and stores 0 in *Irql and in     *)
(* *Affinity; two calls in a row with the same such type return the same,  *)
(* whatever their BusNumber, BusInterruptLevel and BusInterruptVector.     *)
C12_NotPresent ==
    [][ /\ NotPresent(res'.InterfaceType) =>
               /\ res'.Vector = <<0, 0>>
               /\ res'.Irql = 0
               /\ res'.Affinity = 0
        /\ ( /\ NotPresent(res.InterfaceType)
             /\ res'.InterfaceType = res.InterfaceType )
           => /\ res'.Vector = res.Vector
              /\ res'.Irql = res.Irql
              /\ res'.Affinity = res.Affinity
      ]_vars

\* a TurboChannel interrupt with the largest level and the largest bus
\* vector has been resolved to vector 0, level 0 and no processor
C12_Witness ==
    /\ res.InterfaceType = "TurboChannel"
    /\ res.BusNumber = <<0, 1>>
    /\ res.BusInterruptLevel = <<65535, 65535>>
    /\ res.BusInterruptVector = <<65535, 65535>>
    /\ res.Vector = <<0, 0>>
    /\ res.Irql = 0
    /\ res.Affinity = 0

(* C13: a call of HalRequestIpi(Mask) in a build with _DUO_ writes the     *)
(* IpInterruptRequest register exactly once before it returns, the value   *)
(* written is Mask, and the register changes in no other step; in a build  *)
(* without _DUO_ the call writes nothing and changes no state.             *)
C13_OneWriteOfMask ==
    [][ /\ \A p \in Procs :
               /\ (ipi[p].pc = "return" /\ ipi'[p].pc = "idle") =>
                      ipi[p].nWrites = (IF DUO THEN 1 ELSE 0)
               /\ (ipi[p].pc = "write" /\ ipi'[p].nWrites = ipi[p].nWrites + 1) =>
                      /\ IpInterruptRequest' = ipi[p].Mask
                      /\ BitsOfULong(IpInterruptRequest') = BitsOfULong(ipi[p].Mask)
               /\ ipi'[p].nWrites <= 1
               /\ (~DUO /\ ipi'[p] # ipi[p]) =>
                      UNCHANGED <<IpInterruptRequest, ipiPending, gateVars,
                                  resolverVars>>
        /\ IpInterruptRequest' # IpInterruptRequest =>
               \E p \in Procs : ipi[p].pc = "write" /\ ipi'[p].pc = "return"
      ]_vars

\* in a build with _DUO_, HalRequestIpi with the mask of processors 1 and 3
\* is about to return after one write, and the register has exactly the
\* bits 1 and 3
C13_Witness ==
    /\ DUO
    /\ ipi[1].pc = "return"
    /\ ipi[1].Mask = <<0, 10>>
    /\ ipi[1].nWrites = 1
    /\ IpInterruptRequest = <<0, 10>>
    /\ BitsOfULong(IpInterruptRequest) = {1, 3}

BuiltinVectors == (DEVICE_VECTORS + 1) .. MAXIMUM_BUILTIN_VECTOR

(* C16: in a call of HalEnableSystemInterrupt or HalDisableSystemInterrupt *)
(* on a built-in vector V, the store sets (enable) or clears (disable)     *)
(* bit V - DEVICE_VECTORS - 1 of HalpBuiltinInterruptEnable and leaves     *)
(* every other bit as it is, no other step of the call changes the mask,   *)
(* and no step changes the state of the external-bus controller.           *)
C16_BitMapping ==
    [][ \A p \in Procs :
            ( /\ Acts(p)
              /\ IsCall(Actor(p))
              /\ Actor(p).Vector \in BuiltinVectors )
            => /\ UNCHANGED <<eisaCtl, lastBusCall>>
               /\ IF InCall(p, {"store"})
                  THEN BitsOf(HalpBuiltinInterruptEnable') =
                           (IF Top(p).fn = "Enable"
                            THEN BitsOf(HalpBuiltinInterruptEnable)
                                     \cup {Top(p).Vector - DEVICE_VECTORS - 1}
                            ELSE BitsOf(HalpBuiltinInterruptEnable)
                                     \ {Top(p).Vector - DEVICE_VECTORS - 1})
                  ELSE UNCHANGED HalpBuiltinInterruptEnable
               /\ InCall(p, {"write", "release", "lower"}) =>
                      Bit(HalpBuiltinInterruptEnable,
                          Top(p).Vector - DEVICE_VECTORS - 1) =
                          (IF Top(p).fn = "Enable" THEN 1 ELSE 0)
      ]_vars

\* the first built-in vector has been enabled while the bits of the second
\* and of the last one were set and an EISA interrupt was enabled: bit 0 is
\* set, the other bits and the EISA controller are as they were
C16_Witness ==
    /\ At(1, "Enable", "write")
    /\ Top(1).Vector = DEVICE_VECTORS + 1
    /\ EnableReg = 514
    /\ HalpBuiltinInterruptEnable = 515
    /\ eisaCtl[EISA_VECTORS] = "LevelSensitive"

\* no processor is at the lock acquisition of a call while it holds the lock
NoSelfAcquire ==
    \A p \in Procs :
        ~(InCall(p, {"acquire"}) /\ HalpSystemInterruptLock = p)

GateState == <<HalpBuiltinInterruptEnable, EnableReg, HalpSystemInterruptLock,
               irql, stk, eisaCtl, lastBusCall>>

(* C18: a step of HalGetInterruptVector or of HalRequestIpi leaves the     *)
(* mask, the Enable register, the lock, every priority level, the calls of *)
(* the gate and the external-bus controller unchanged; a step of the gate  *)
(* leaves the results of the resolver unchanged; and the mask changes only *)
(* in the store of an enable or disable call on a built-in vector.         *)
C18_MaskOnlyByGate ==
    [][ /\ res' # res => UNCHANGED GateState
        /\ (ipi' # ipi \/ IpInterruptRequest' # IpInterruptRequest
                \/ ipiPending' # ipiPending) => UNCHANGED GateState
        /\ stk' # stk => UNCHANGED <<res, HalpEisaBusAffinity>>
        /\ HalpBuiltinInterruptEnable' # HalpBuiltinInterruptEnable =>
               \E p \in Procs :
                   /\ InCall(p, {"store"})
                   /\ Acts(p)
                   /\ Top(p).Vector \in BuiltinVectors
      ]_vars

\* while processor 1 holds the lock in an enable call and the mask has a bit
\* set, a bus interrupt has been resolved and processor 2 has written an
\* interprocessor request
C18_Witness ==
    /\ HalpSystemInterruptLock = 1
    /\ At(1, "Enable", "release")
    /\ HalpBuiltinInterruptEnable = 1
    /\ EnableReg = 1
    /\ irql[1] = HIGH_LEVEL
    /\ res.InterfaceType = "Isa"
    /\ ipi[2].pc = "return"
    /\ ipi[2].nWrites = 1
    /\ IpInterruptRequest = <<0, 10>>

(* C19: starting from the all-disabled mask, whenever every call has       *)
(* returned, bit V - DEVICE_VECTORS - 1 of HalpBuiltinInterruptEnable is   *)
(* set if and only if the last call on the built-in vector V, in           *)
(* lock-acquisition order, was an enable; and no bit is ever set that is   *)
(* the bit of no built-in vector.                                          *)
C19_MaskReflectsLastCall ==
    /\ Quiescent =>
           \A V \in BuiltinVectors :
               Bit(HalpBuiltinInterruptEnable, V - DEVICE_VECTORS - 1) = 1
                   <=> lastOp.op[V] = "Enable"
    /\ \A n \in 0 .. 15 :
           Bit(HalpBuiltinInterruptEnable, n) = 1 =>
               \E V \in BuiltinVectors : n = V - DEVICE_VECTORS - 1

\* every call has returned; the last call on the first built-in vector was a
\* disable and its bit is clear, the last call on the second one was an
\* enable and its bit is set
C19_Witness ==
    /\ Quiescent
    /\ lastOp.op[DEVICE_VECTORS + 1] = "Disable"
    /\ lastOp.op[DEVICE_VECTORS + 2] = "Enable"
    /\ HalpBuiltinInterruptEnable = 2

\* processor 1 is in a gate call made with the vector and the level that
\* the last call of the resolver returned
CallOnResolved ==
    /\ InCall(1, AllPcs)
    /\ res.Vector = <<0, Top(1).Vector>>
    /\ res.Irql = Top(1).Irql

(* C20: a gate call made with the vector and the level that                *)
(* HalGetInterruptVector returned for Isa or Eisa and a bus level 0..15    *)
(* satisfies the gate's external-bus test, calls the external-bus routine  *)
(* once, with that vector, and writes no register; a gate call made with   *)
(* the result for a bus that is not present (vector 0, level 0) has no     *)
(* effect; and no step of these calls changes the built-in mask or the     *)
(* Enable register.                                                        *)
C20_ResolvedVectorAccepted ==
    [][ /\ (External(res.InterfaceType) \/ NotPresent(res.InterfaceType)) =>
               UNCHANGED <<HalpBuiltinInterruptEnable, EnableReg>>
        /\ (External(res.InterfaceType) /\ CallOnResolved) =>
               /\ Top(1).Vector >= EISA_VECTORS
               /\ Top(1).Vector < EISA_VECTORS + MAXIMUM_EISA_VECTOR
               /\ Top(1).Irql = EISA_DEVICE_LEVEL
               /\ Top(1).nWrites = 0
               /\ InCall(1, {"release", "lower"}) => Top(1).nBus = 1
               /\ InCall(1, {"release"}) =>
                      /\ lastBusCall.Vector = Top(1).Vector
                      /\ eisaCtl[Top(1).Vector] =
                             (IF Top(1).fn = "Enable" THEN Top(1).InterruptMode
                              ELSE "Disabled")
        /\ (NotPresent(res.InterfaceType) /\ CallOnResolved) =>
               /\ Top(1).Vector = 0
               /\ Top(1).Irql = 0
               /\ Top(1).nWrites = 0
               /\ Top(1).nBus = 0
               /\ UNCHANGED <<eisaCtl, lastBusCall>>
        /\ InCall(1, AllPcs) => CallOnResolved
      ]_vars

\* level 2 of the Isa bus has been resolved to vector 41, and the enable
\* call made with it has programmed the EISA controller for that vector,
\* while the built-in mask has kept its bits
C20_Witness ==
    /\ res.InterfaceType = "Isa"
    /\ res.BusInterruptLevel = <<0, 2>>
    /\ At(1, "Enable", "release")
    /\ Top(1).Vector = 9 + EISA_VECTORS
    /\ Top(1).nBus = 1
    /\ lastBusCall = [fn |-> "HalpEnableEisaInterrupt", Vector |-> 9 + EISA_VECTORS,
                      InterruptMode |-> "LevelSensitive"]
    /\ eisaCtl[9 + EISA_VECTORS] = "LevelSensitive"
    /\ HalpBuiltinInterruptEnable = 513
    /\ EnableReg = 513
    /\ eisaCtl[EISA_VECTORS + 15] = "Latched"

====
